---- MODULE Spec2Model ----
(***************************************************************************)
(* Model of src/main.cpp: a harness that registers the CustomAddMul op,    *)
(* reads and compiles a model for "GPU", fills three input tensors with a  *)
(* fixed-seed random sequence, verifies one inference against              *)
(* (in0 + in1) * in2 and then re-runs inference for 30 seconds.            *)
(*                                                                         *)
(* The inference engine is external: every engine call either returns or   *)
(* throws, and what it returns (device list, tensor shapes, output buffer, *)
(* call duration) is drawn from the bounded sets of the variable host.     *)
(*                                                                         *)
(* Numbers.  Input floats are fixed-point in units of 1e-3 (0..999 is the  *)
(* interval [0,1)); sums keep that unit and products, the output buffer    *)
(* and differences are in units of 1e-6, so the tolerance 1e-3 is 1000.    *)
(* NaN is a distinguished value with IEEE comparison semantics.  Time is   *)
(* in whole seconds.                                                       *)
(***************************************************************************)
EXTENDS Integers, Sequences, FiniteSets, TLC

VARIABLES
    host,        \* the machine and files the program runs against (never changes)
    pc,          \* position in main()
    devices,     \* std::vector<std::string> devices            (line 56)
    gpu_found,   \* bool gpu_found                              (line 57)
    model,       \* std::shared_ptr<ov::Model> model            (line 87)
    input0,      \* ov::Tensor input0                           (line 98)
    input1,      \* ov::Tensor input1                           (line 99)
    input2,      \* ov::Tensor input2                           (line 100)
    H,           \* size_t H                                    (line 104)
    W,           \* size_t W                                    (line 105)
    compiled,    \* ov::CompiledModel compiled_model: the kernel built (line 91)
    gen,         \* state of fill_tensor's generator after its last draw (line 39)
    output,      \* ov::Tensor output / the request's output buffer (line 117)
    max_diff,    \* float max_diff                              (line 126)
    success,     \* bool success                                (line 127)
    clock,       \* high_resolution_clock::now()
    start,       \* auto start                                  (line 148)
    elapsed,     \* duration<double> elapsed                    (line 155)
    iterations,  \* int iterations                              (line 149)
    cout,        \* lines written to standard output
    cerr,        \* lines written to standard error
    exit_code,   \* -1 while running, then the process exit status
    calls,       \* history: the engine calls made so far, in order
    thrown,      \* history: index in calls of the call that threw, 0 if none
    oob          \* history: the out-of-bounds reads performed so far

vars == << host, pc, devices, gpu_found, model, compiled, input0, input1,
           input2, H, W, gen, output, max_diff, success, clock, start, elapsed, iterations,
           cout, cerr, exit_code, calls, thrown, oob >>

----------------------------------------------------------------------------
(* Bounds of the model *)

\* longest device list the engine returns
MaxDevices == 2
\* most output elements the kernel gets wrong in one inference
MaxBad == 1
\* longest single inference call in the stress loop, in seconds
MaxDur == 2

----------------------------------------------------------------------------
(* Program constants *)

\* std::mt19937 gen(42)
Seed == 42
\* if (diff > 1e-3), in units of 1e-6
Tol == 1000
\* if (i < 5)
PrintLimit == 5
\* if (elapsed.count() >= 30.0)
Limit == 30
\* if (iterations % 10 == 0)
ProgressEvery == 10
\* std::string::npos
npos == 0 - 1
\* a float that is not a number
NaN == 0 - 1000000000

----------------------------------------------------------------------------
(* Strings are sequences of characters, so that find() searches them. *)

GPU == << "G", "P", "U" >>
CPU == << "C", "P", "U" >>
GNA == << "G", "N", "A" >>
GPU0 == << "G", "P", "U", ".", "0" >>

DeviceNames == { CPU, GNA, GPU0 }

\* the matches of pat in s, as 0-based positions
MatchesAt(s, pat) ==
    { i \in 0 .. (Len(s) - Len(pat)) : SubSeq(s, i + 1, i + Len(pat)) = pat }

\* a find() that only recognises the whole name
find_whole(s, pat) == IF s = pat THEN 0 ELSE npos

\* std::string::find: position of the first match, npos if there is none
find(s, pat) ==
    IF MatchesAt(s, pat) = {} THEN npos
    ELSE CHOOSE i \in MatchesAt(s, pat) : \A j \in MatchesAt(s, pat) : i <= j

\* the loop of lines 58-63, from device index k (1-based) on
RECURSIVE scan_devices(_, _)
scan_devices(devs, k) ==
    IF k > Len(devs) THEN FALSE
    ELSE IF find(devs[k], GPU) # npos THEN TRUE
    ELSE scan_devices(devs, k + 1)

----------------------------------------------------------------------------
(* Float arithmetic with NaN *)

IsNaN(x) == x = NaN
fadd(a, b) == IF IsNaN(a) \/ IsNaN(b) THEN NaN ELSE a + b
fsub(a, b) == IF IsNaN(a) \/ IsNaN(b) THEN NaN ELSE a - b
fmul(a, b) == IF IsNaN(a) \/ IsNaN(b) THEN NaN ELSE a * b
fabs(a) == IF IsNaN(a) THEN NaN ELSE IF a < 0 THEN 0 - a ELSE a
\* a > b on floats: false when either side is NaN
fgt(a, b) == ~IsNaN(a) /\ ~IsNaN(b) /\ a > b
\* a < b on floats
flt(a, b) == ~IsNaN(a) /\ ~IsNaN(b) /\ a < b
\* std::max(a, b) is (a < b) ? b : a
fmax(a, b) == IF flt(a, b) THEN b ELSE a

----------------------------------------------------------------------------
(* Tensors *)

RECURSIVE shape_size(_)
shape_size(shape) ==
    IF shape = << >> THEN 1 ELSE Head(shape) * shape_size(Tail(shape))

\* ov::Tensor::get_size
get_size(tensor) == shape_size(tensor.shape)

NoTensor == [shape |-> << 0 >>, data |-> << >>]

\* a generator that lives across calls (static) and so continues where it stopped
gen_static(prev) == prev

\* std::mt19937 gen(42): every call constructs a fresh generator from the seed,
\* whatever state prev the previous call's generator ended in
gen_ctor(prev) == Seed

\* one draw: the generator's next state.  A linear congruential step stands in
\* for the Mersenne twister; the state is also the value drawn, in [0, 1)
gen_draw(state) == (state * 61 + 17) % 1000

\* the loop of lines 41-43: << data, generator state >> after writing i..size-1
RECURSIVE fill_loop(_, _, _, _)
fill_loop(data, i, size, state) ==
    IF i < size
    THEN fill_loop([data EXCEPT ![i + 1] = gen_draw(state)], i + 1, size,
                   gen_draw(state))
    ELSE << data, state >>

\* fill_tensor(tensor) with the previous generator state prev:
\* << the tensor afterwards, the generator state afterwards >>
fill_tensor(tensor, prev) ==
    LET r == fill_loop(tensor.data, 0, get_size(tensor), gen_ctor(prev))
    IN  << [tensor EXCEPT !.data = r[1]], r[2] >>

\* CustomAddMul::validate_and_infer_types: the output takes input 0's shape
validate_and_infer_types(inputs) ==
    IF Len(inputs) > 0 THEN inputs[1] ELSE << >>

----------------------------------------------------------------------------
(* The environment *)

RECURSIVE SeqsUpTo(_, _)
SeqsUpTo(S, n) ==
    IF n = 0 THEN { << >> }
    ELSE LET shorter == SeqsUpTo(S, n - 1)
         IN  shorter \cup { Append(s, x) : s \in shorter, x \in S }

\* the engine lists each device once
DeviceLists ==
    { d \in SeqsUpTo(DeviceNames, MaxDevices) :
        \A i, j \in 1 .. Len(d) : i # j => d[i] # d[j] }

\* shapes of input 0 in the models on disk: NCHW with 6 and with 2 elements,
\* and a rank-2 shape
Input0Shapes == { << 1, 1, 2, 3 >>, << 1, 1, 1, 2 >>, << 1, 2 >> }

\* shapes of inputs 1 and 2
OtherShapes == { << 1, 1, 2, 3 >>, << 1, 1, 1, 2 >> }

\* the models on disk: three inputs of any of these shapes, or only two inputs
Models ==
    { [inputs |-> << a, b, c >>] : a \in Input0Shapes, b \in OtherShapes,
                                   c \in OtherShapes }
    \cup { [inputs |-> << a, a >>] : a \in { << 1, 1, 2, 3 >> } }

\* how far a kernel's element may be off: on the tolerance, and beyond it
Deltas == { Tol, 0 - (Tol + 1) }

\* what a read past the end of a buffer may return
Garbage == { 0, 999 }

\* the kernels a build can produce for n output elements: per element the
\* deviation from (in0 + in1) * in2, or NaN; at most bad elements are not exact
Kernels(n, deltas, bad) ==
    { k \in [1 .. n -> { 0, NaN } \cup deltas] :
        Cardinality({ i \in 1 .. n : k[i] # 0 }) <= bad }

NoKernel == << >>

\* every device list, model and kernel; each inference takes half the limit
FullHost ==
    [ devLists |-> DeviceLists, models |-> Models, deltas |-> Deltas,
      maxBad |-> MaxBad, garbage |-> Garbage, durs |-> { Limit \div 2 } ]

\* a healthy host: a GPU, a well-formed model, an exact kernel; inference calls
\* of every duration
StressHost ==
    [ devLists |-> { << CPU, GPU0 >> },
      models |-> { [inputs |-> << s, s, s >>] : s \in { << 1, 1, 1, 2 >> } },
      deltas |-> { }, maxBad |-> 0, garbage |-> { 0 },
      durs |-> 1 .. MaxDur ]

----------------------------------------------------------------------------
(* Pieces of main() *)

Line(kind, args) == << kind, args >>

\* exit status of a process killed by SIGSEGV, as the shell reports it
Killed == 128 + 11

\* data[i] of a float buffer; a read past its end returns g
rd(tensor, i, g) ==
    IF i < Len(tensor.data) THEN tensor.data[i + 1] ELSE g

\* line 131: if (diff > 1e-3)
mismatch(diff) == fgt(diff, Tol)

\* line 134: if (i < 5)
print_mismatch(i) == i < PrintLimit

\* lines 128-138 from index i on; st is [max_diff, success, lines]; g is what
\* a read past the end of an input returns
RECURSIVE verify_loop(_, _, _, _)
verify_loop(i, size, st, g) ==
    IF ~(i < size) THEN st
    ELSE
        LET got == rd(output, i, 0)
            expected == fmul(fadd(rd(input0, i, g), rd(input1, i, g)),
                             rd(input2, i, g))
            diff == fabs(fsub(got, expected))
            st1 == IF mismatch(diff)
                   THEN [ max_diff |-> fmax(st.max_diff, diff),
                          success |-> FALSE,
                          lines |->
                              IF print_mismatch(i)
                              THEN Append(st.lines,
                                          Line("Mismatch", << i, got, expected >>))
                              ELSE st.lines ]
                   ELSE st
        IN  verify_loop(i + 1, size, st1, g)

\* the output buffer the compiled kernel writes for the bound inputs
run_kernel(kernel, shape) ==
    [ shape |-> shape,
      data |-> [ i \in 1 .. shape_size(shape) |->
                   IF IsNaN(kernel[i]) THEN NaN
                   ELSE fmul(fadd(rd(input0, i - 1, 0), rd(input1, i - 1, 0)),
                             rd(input2, i - 1, 0)) + kernel[i] ] ]

\* a loop that stops only once the limit is exceeded
time_up_strict(e) == e > Limit

\* line 156: if (elapsed.count() >= 30.0) break
time_up(e) == e >= Limit

\* a progress line on every iteration
progress_always(n) == TRUE

\* line 158: if (iterations % 10 == 0)
progress_due(n) == n % ProgressEvery = 0

----------------------------------------------------------------------------
(* The state machine *)

InitWith(h) ==
    /\ host = h
    /\ pc = "core"
    /\ devices = << >>
    /\ gpu_found = FALSE
    /\ model = [inputs |-> << >>, output |-> << >>]
    /\ compiled = NoKernel
    /\ input0 = NoTensor
    /\ input1 = NoTensor
    /\ input2 = NoTensor
    /\ H = 0
    /\ W = 0
    /\ gen = Seed
    /\ output = NoTensor
    /\ max_diff = 0
    /\ success = TRUE
    /\ clock = 0
    /\ start = 0
    /\ elapsed = 0
    /\ iterations = 0
    /\ cout = << >>
    /\ cerr = << >>
    /\ exit_code = 0 - 1
    /\ calls = << >>
    /\ thrown = 0
    /\ oob = { }

Init == InitWith(FullHost)

InitStress == InitWith(StressHost)

locals == << devices, gpu_found, model, compiled, input0, input1, input2, H, W,
             gen, output, max_diff, success, start, elapsed, iterations >>

\* the engine call name returns and main() goes on at next
Returns(name, next) ==
    /\ calls' = Append(calls, name)
    /\ pc' = next
    /\ UNCHANGED << host, thrown, exit_code, cerr, oob >>

\* the engine call name throws: control passes to the catch clause of line 164
Throws(name) ==
    /\ calls' = Append(calls, name)
    /\ thrown' = Len(calls) + 1
    /\ pc' = "catch"
    /\ UNCHANGED << host, locals, clock, exit_code, cerr, oob >>

\* line 49: ov::Core core
Core ==
    /\ pc = "core"
    /\ \/ /\ Returns("Core", "add_extension")
          /\ UNCHANGED << locals, clock, cout >>
       \/ /\ Throws("Core")
          /\ UNCHANGED cout

\* lines 52-53
AddExtension ==
    /\ pc = "add_extension"
    /\ \/ /\ Returns("add_extension", "get_available_devices")
          /\ cout' = Append(cout, Line("Registered", << >>))
          /\ UNCHANGED << locals, clock >>
       \/ /\ Throws("add_extension")
          /\ UNCHANGED cout

\* line 56
GetAvailableDevices ==
    /\ pc = "get_available_devices"
    /\ \/ /\ Returns("get_available_devices", "check_gpu")
          /\ \E d \in host.devLists : devices' = d
          /\ UNCHANGED << gpu_found, model, compiled, input0, input1, input2, H,
                          W, gen, output, max_diff, success, start, elapsed,
                          iterations, clock, cout >>
       \/ /\ Throws("get_available_devices")
          /\ UNCHANGED cout

\* lines 57-76: the search for a GPU, the warning, the config message
CheckGpu ==
    /\ pc = "check_gpu"
    /\ gpu_found' = scan_devices(devices, 1)
    /\ cerr' = IF ~gpu_found'
               THEN cerr \o << Line("GpuNotFound", << >>),
                               Line("AvailableDevices", devices) >>
               ELSE cerr
    /\ cout' = Append(cout, Line("LoadingConfig", << >>))
    /\ pc' = "read_model"
    /\ UNCHANGED << host, devices, model, compiled, input0, input1, input2, H, W,
                    gen, output, max_diff, success, start, elapsed, iterations,
                    clock, exit_code, calls, thrown, oob >>

\* lines 86-87; deserialising the graph constructs the CustomAddMul node, whose
\* validate_and_infer_types sets the output shape
ReadModel ==
    /\ pc = "read_model"
    /\ cout' = Append(cout, Line("Reading", << >>))
    /\ \/ /\ Returns("read_model", "compile_model")
          /\ \E m \in host.models :
                model' = [ inputs |-> m.inputs,
                           output |-> validate_and_infer_types(m.inputs) ]
          /\ UNCHANGED << devices, gpu_found, compiled, input0, input1, input2,
                          H, W, gen, output, max_diff, success, start, elapsed,
                          iterations, clock >>
       \/ Throws("read_model")

\* lines 90-91
CompileModel ==
    /\ pc = "compile_model"
    /\ cout' = Append(cout, Line("Compiling", << >>))
    /\ \/ /\ Returns("compile_model", "create_infer_request")
          /\ \E k \in Kernels(shape_size(model.output), host.deltas, host.maxBad) :
                compiled' = k
          /\ UNCHANGED << devices, gpu_found, model, input0, input1, input2, H,
                          W, gen, output, max_diff, success, start, elapsed,
                          iterations, clock >>
       \/ Throws("compile_model")

\* line 94
CreateInferRequest ==
    /\ pc = "create_infer_request"
    /\ \/ /\ Returns("create_infer_request", "get_input_tensor0")
          /\ UNCHANGED << locals, clock, cout >>
       \/ /\ Throws("create_infer_request")
          /\ UNCHANGED cout

InputName(k) == << "get_input_tensor0", "get_input_tensor1", "get_input_tensor2" >>[k + 1]

AfterInput(k) == << "get_input_tensor1", "get_input_tensor2", "get_shape" >>[k + 1]

\* the tensor the request holds for an input of this shape, as the engine
\* allocated it; the program overwrites it before it reads it
Allocated(shape) ==
    [ shape |-> shape, data |-> [ i \in 1 .. shape_size(shape) |-> 0 ] ]

\* lines 98-100: request.get_input_tensor(k); a model with no input k makes the
\* engine throw
GetInputTensor(k) ==
    /\ pc = InputName(k)
    /\ \/ /\ k < Len(model.inputs)
          /\ Returns(InputName(k), AfterInput(k))
          /\ LET t == Allocated(model.inputs[k + 1])
             IN  /\ input0' = IF k = 0 THEN t ELSE input0
                 /\ input1' = IF k = 1 THEN t ELSE input1
                 /\ input2' = IF k = 2 THEN t ELSE input2
          /\ UNCHANGED << devices, gpu_found, model, compiled, H, W, gen, output,
                          max_diff, success, start, elapsed, iterations, clock,
                          cout >>
       \/ /\ Throws(InputName(k))
          /\ UNCHANGED cout

\* lines 103-106: shape[2] and shape[3] of input 0, unchecked.  On a shape of
\* rank below 4 the read is past the end of the vector: the process is killed
\* or the read returns whatever lies there
GetShape ==
    /\ pc = "get_shape"
    /\ LET shape == input0.shape
           missing == { i \in { 2, 3 } : ~(i < Len(shape)) }
       IN  /\ oob' = oob \cup { << "shape", i >> : i \in missing }
           /\ \E killed \in IF missing = { } THEN { FALSE } ELSE BOOLEAN :
              \E g \in host.garbage :
                 IF killed
                 THEN /\ pc' = "exited"
                      /\ exit_code' = Killed
                      /\ UNCHANGED << H, W, cout >>
                 ELSE /\ H' = IF 2 < Len(shape) THEN shape[3] ELSE g
                      /\ W' = IF 3 < Len(shape) THEN shape[4] ELSE g
                      /\ cout' = Append(cout, Line("Generating", << H', W' >>))
                      /\ pc' = "fill_tensor0"
                      /\ UNCHANGED exit_code
    /\ UNCHANGED << host, devices, gpu_found, model, compiled, input0, input1,
                    input2, gen, output, max_diff, success, start, elapsed,
                    iterations, clock, cerr, calls, thrown >>

FillName(k) == << "fill_tensor0", "fill_tensor1", "fill_tensor2" >>[k + 1]

AfterFill(k) == << "fill_tensor1", "fill_tensor2", "infer" >>[k + 1]

\* lines 108-110: fill_tensor(input k)
Fill(k) ==
    /\ pc = FillName(k)
    /\ LET r == fill_tensor(<< input0, input1, input2 >>[k + 1], gen)
       IN  /\ input0' = IF k = 0 THEN r[1] ELSE input0
           /\ input1' = IF k = 1 THEN r[1] ELSE input1
           /\ input2' = IF k = 2 THEN r[1] ELSE input2
           /\ gen' = r[2]
    /\ pc' = AfterFill(k)
    /\ UNCHANGED << host, devices, gpu_found, model, compiled, H, W, output,
                    max_diff, success, start, elapsed, iterations, clock, cout,
                    cerr, exit_code, calls, thrown, oob >>

\* lines 113-114: the verification inference; the call blocks for its duration
Infer ==
    /\ pc = "infer"
    /\ cout' = Append(cout, Line("Running", << >>))
    /\ \/ /\ Returns("infer", "get_output_tensor")
          /\ output' = run_kernel(compiled, model.output)
          /\ \E d \in host.durs : clock' = clock + d
          /\ UNCHANGED << devices, gpu_found, model, compiled, input0, input1,
                          input2, H, W, gen, max_diff, success, start, elapsed,
                          iterations >>
       \/ Throws("infer")

\* line 117
GetOutputTensor ==
    /\ pc = "get_output_tensor"
    /\ \/ /\ Returns("get_output_tensor", "verify")
          /\ UNCHANGED << locals, clock, cout >>
       \/ /\ Throws("get_output_tensor")
          /\ UNCHANGED cout

\* lines 118-144: the comparison loop over output.get_size() elements and the
\* verdict.  Where an input holds fewer elements than the output the reads run
\* past its end: the process is killed or the reads return what lies there
Verify ==
    /\ pc = "verify"
    /\ LET size == get_size(output)
           short == { e \in { "input" } \X (0 .. 2) \X (0 .. (size - 1)) :
                        ~(e[3] < Len(<< input0, input1, input2 >>[e[2] + 1].data)) }
       IN  /\ oob' = oob \cup short
           /\ \E killed \in IF short = { } THEN { FALSE } ELSE BOOLEAN :
              \E g \in host.garbage :
                 IF killed
                 THEN /\ pc' = "exited"
                      /\ exit_code' = Killed
                      /\ UNCHANGED << max_diff, success, cout >>
                 ELSE LET st == verify_loop(0, size,
                                            [ max_diff |-> 0, success |-> TRUE,
                                              lines |-> << >> ], g)
                      IN  /\ max_diff' = st.max_diff
                          /\ success' = st.success
                          /\ cout' = (cout \o << Line("Verifying", << >>) >>
                                           \o st.lines)
                                     \o << IF st.success
                                           THEN Line("SUCCESS", << >>)
                                           ELSE Line("FAILURE", << st.max_diff >>) >>
                          /\ pc' = "stress_start"
                          /\ UNCHANGED exit_code
    /\ UNCHANGED << host, devices, gpu_found, model, compiled, input0, input1,
                    input2, H, W, gen, output, start, elapsed, iterations, clock,
                    cerr, calls, thrown >>

\* lines 147-149
StressStart ==
    /\ pc = "stress_start"
    /\ cout' = Append(cout, Line("StartingStress", << >>))
    /\ start' = clock
    /\ iterations' = 0
    /\ pc' = "stress_infer"
    /\ UNCHANGED << host, devices, gpu_found, model, compiled, input0, input1,
                    input2, H, W, gen, output, max_diff, success, elapsed, clock,
                    cerr, exit_code, calls, thrown, oob >>

\* line 151: request.infer() in the loop; same buffers, same kernel
StressInfer ==
    /\ pc = "stress_infer"
    /\ \/ /\ Returns("infer", "stress_check")
          /\ output' = run_kernel(compiled, model.output)
          /\ \E d \in host.durs : clock' = clock + d
          /\ UNCHANGED << devices, gpu_found, model, compiled, input0, input1,
                          input2, H, W, gen, max_diff, success, start, elapsed,
                          iterations, cout >>
       \/ /\ Throws("infer")
          /\ UNCHANGED cout

\* lines 152-162 and 168: count, read the clock, leave or report progress
StressCheck ==
    /\ pc = "stress_check"
    /\ iterations' = iterations + 1
    /\ elapsed' = clock - start
    /\ IF time_up(elapsed')
       THEN /\ cout' = Append(cout, Line("StressComplete", << iterations' >>))
            /\ exit_code' = 0
            /\ pc' = "exited"
       ELSE /\ cout' = IF progress_due(iterations')
                       THEN Append(cout, Line("Progress", << iterations' >>))
                       ELSE cout
            /\ pc' = "stress_infer"
            /\ UNCHANGED exit_code
    /\ UNCHANGED << host, devices, gpu_found, model, compiled, input0, input1,
                    input2, H, W, gen, output, max_diff, success, start, clock,
                    cerr, calls, thrown, oob >>

\* a catch clause that prints the message and falls through to return 0
CatchReturnsZero ==
    /\ pc = "catch"
    /\ cerr' = Append(cerr, Line("Exception", << calls[thrown] >>))
    /\ exit_code' = 0
    /\ pc' = "exited"
    /\ UNCHANGED << host, locals, clock, cout, calls, thrown, oob >>

\* lines 164-167
Catch ==
    /\ pc = "catch"
    /\ cerr' = Append(cerr, Line("Exception", << calls[thrown] >>))
    /\ exit_code' = 1
    /\ pc' = "exited"
    /\ UNCHANGED << host, locals, clock, cout, calls, thrown, oob >>

Next ==
    \/ Core
    \/ AddExtension
    \/ GetAvailableDevices
    \/ CheckGpu
    \/ ReadModel
    \/ CompileModel
    \/ CreateInferRequest
    \/ \E k \in 0 .. 2 : GetInputTensor(k)
    \/ GetShape
    \/ \E k \in 0 .. 2 : Fill(k)
    \/ Infer
    \/ GetOutputTensor
    \/ Verify
    \/ StressStart
    \/ StressInfer
    \/ StressCheck
    \/ Catch

Spec == Init /\ [][Next]_vars

\* main() is one thread that runs on until it exits
StressSpec == InitStress /\ [][Next]_vars /\ WF_vars(Next)

----------------------------------------------------------------------------
(* Vocabulary of the properties *)

HasLine(stream, kind) == \E j \in 1 .. Len(stream) : stream[j][1] = kind

IsKind(kind, l) == l[1] = kind

MismatchLine(l) == IsKind("Mismatch", l)

ProgressLine(l) == IsKind("Progress", l)

CompleteLine(l) == IsKind("StressComplete", l)

Abs(x) == IF x < 0 THEN 0 - x ELSE x

Min(a, b) == IF a < b THEN a ELSE b

\* s contains pat somewhere
Contains(s, pat) ==
    \E i \in 1 .. Len(s) :
        /\ i + Len(pat) - 1 <= Len(s)
        /\ \A j \in 1 .. Len(pat) : s[i + j - 1] = pat[j]

Terminated == pc = "exited"

ExitedNormally == pc = "exited" /\ exit_code = 0

VerdictPrinted == HasLine(cout, "SUCCESS") \/ HasLine(cout, "FAILURE")

\* no read so far was past the end of a buffer or of a shape
InputsInBounds == oob = { }

OutputIndices == 0 .. (Len(output.data) - 1)

NoNaN == \A i \in OutputIndices : output.data[i + 1] # NaN

\* (in0[i] + in1[i]) * in2[i]
Ref(i) == (input0.data[i + 1] + input1.data[i + 1]) * input2.data[i + 1]

\* |output[i] - (in0[i] + in1[i]) * in2[i]| <= 1e-3; no NaN is within it
WithinTol(i) ==
    /\ output.data[i + 1] # NaN
    /\ Abs(output.data[i + 1] - Ref(i)) <= Tol

\* the elements that exceed the tolerance, when no element is NaN
Violations == { i \in OutputIndices : Abs(output.data[i + 1] - Ref(i)) > Tol }

\* the j-th smallest element of a set of numbers
Nth(S, j) == CHOOSE i \in S : Cardinality({ x \in S : x < i }) = j - 1

MaxDeviation ==
    CHOOSE m \in { Abs(output.data[i + 1] - Ref(i)) : i \in OutputIndices } :
        \A i \in OutputIndices : Abs(output.data[i + 1] - Ref(i)) <= m

----------------------------------------------------------------------------
(* C1 *)

\* C1: when the process has ended, its exit code is 1 if and only if an engine
\* call threw, and it is 0 in every other run.
C1_ExitCodeOneIffException ==
    Terminated =>
        /\ exit_code = 1 <=> thrown # 0
        /\ thrown = 0 => exit_code = 0

----------------------------------------------------------------------------
(* C2 *)

\* C2: once the verdict is printed (all reads in bounds), SUCCESS is reported
\* if and only if every output element is within 1e-3 of (in0+in1)*in2, and
\* FAILURE if and only if some element is not.
C2_VerdictIffWithinTolerance ==
    (VerdictPrinted /\ InputsInBounds) =>
        /\ HasLine(cout, "SUCCESS") <=> \A i \in OutputIndices : WithinTol(i)
        /\ HasLine(cout, "FAILURE") <=> \E i \in OutputIndices : ~WithinTol(i)

----------------------------------------------------------------------------
(* C3 *)

\* C3: once the verdict is printed (all reads in bounds, no NaN), the mismatch
\* lines are exactly the first min(5, number of mismatches) mismatching elements
\* in index order, wherever in the buffer they lie.
C3_FirstFiveMismatchesPrinted ==
    (VerdictPrinted /\ InputsInBounds /\ NoNaN) =>
        SelectSeq(cout, MismatchLine) =
            [ j \in 1 .. Min(PrintLimit, Cardinality(Violations)) |->
                Line("Mismatch", << Nth(Violations, j),
                                    output.data[Nth(Violations, j) + 1],
                                    Ref(Nth(Violations, j)) >>) ]

----------------------------------------------------------------------------
(* C4 *)

\* C4: once the verdict is printed (all reads in bounds, no NaN) and some
\* element exceeds the tolerance, the FAILURE line carries the maximum
\* deviation over all elements and the number of violating elements.
C4_FailureReportsMaxAndCount ==
    (VerdictPrinted /\ InputsInBounds /\ NoNaN /\ Violations # { }) =>
        \E j \in 1 .. Len(cout) :
            /\ cout[j][1] = "FAILURE"
            /\ cout[j][2][1] = MaxDeviation
            /\ Len(cout[j][2]) >= 2
            /\ cout[j][2][2] = Cardinality(Violations)

----------------------------------------------------------------------------
(* C10 *)

\* C10: every buffer and shape index the program reads is in bounds, for every
\* model the engine accepts.
C10_EveryReadInBounds == oob = { }

----------------------------------------------------------------------------
(* C5 *)

\* the loop is about to start an inference
AtLoopHead == pc = "stress_infer"

\* C5, witness: the loop ended past the 30-second mark after several inferences
C5_Witness == ExitedNormally /\ iterations >= 2 /\ elapsed > Limit

\* C5: the stress loop terminates.  A new inference starts only while less than
\* 30 seconds have elapsed since the loop began, so the overrun is at most one
\* call; the check that first sees 30 seconds or more ends the loop at once; a
\* normal end reports at least one iteration; and every run that enters the loop
\* leaves it.
C5_StressLoopTerminates ==
    /\ [](AtLoopHead => clock - start < Limit)
    /\ [](ExitedNormally =>
            /\ iterations >= 1
            /\ elapsed >= Limit
            /\ cout[Len(cout)] = Line("StressComplete", << iterations >>))
    /\ [][(pc = "stress_check" /\ clock - start >= Limit) => ExitedNormally']_vars
    /\ (AtLoopHead ~> Terminated)

----------------------------------------------------------------------------
(* C6 *)

NoGpuListed == \A i \in 1 .. Len(devices) : ~Contains(devices[i], GPU)

\* the device check of lines 57-70 has run
DevicesChecked == HasLine(cout, "LoadingConfig")

Warning == << Line("GpuNotFound", << >>), Line("AvailableDevices", devices) >>

\* C6, witness: the warning was given for a non-empty device list and the
\* program went on to compile the model
C6_Witness ==
    /\ pc = "create_infer_request"
    /\ devices # << >>
    /\ HasLine(cerr, "GpuNotFound")

\* C6: after the device check, the warning with the full device list is on
\* standard error if and only if no device name contains "GPU"; and the check
\* does not end the run: until the next engine call the program is running and
\* about to read the model, and the compile call follows a model that was read.
C6_WarningWithoutHalt ==
    DevicesChecked =>
        /\ NoGpuListed => SubSeq(cerr, 1, 2) = Warning
        /\ ~NoGpuListed => ~HasLine(cerr, "GpuNotFound")
                           /\ ~HasLine(cerr, "AvailableDevices")
        /\ calls[Len(calls)] = "get_available_devices" =>
              pc = "read_model" /\ exit_code = 0 - 1
        /\ (calls[Len(calls)] = "read_model" /\ thrown = 0) =>
              pc = "compile_model" /\ exit_code = 0 - 1

----------------------------------------------------------------------------
(* C7 *)

\* C7, witness: an inference of the stress loop threw after the verdict
C7_Witness ==
    /\ Terminated
    /\ thrown # 0
    /\ calls[thrown] = "infer"
    /\ iterations >= 1
    /\ VerdictPrinted

\* C7: once an engine call has thrown, it stays the last engine call, control is
\* in the catch clause or the process has ended, no stress-completion line
\* exists, a verdict line exists only if verification had already run, nothing
\* is printed after the line that preceded the failed read, compile or first
\* inference, and the process ends with the message on standard error and exit
\* code 1.
C7_ExceptionAborts ==
    thrown # 0 =>
        /\ thrown = Len(calls)
        /\ pc \in { "catch", "exited" }
        /\ ~HasLine(cout, "StressComplete")
        /\ VerdictPrinted =>
              \E j \in 1 .. (thrown - 1) : calls[j] = "get_output_tensor"
        /\ calls[thrown] = "read_model" => cout[Len(cout)][1] = "Reading"
        /\ calls[thrown] = "compile_model" => cout[Len(cout)][1] = "Compiling"
        /\ (calls[thrown] = "infer" /\ ~VerdictPrinted) =>
              cout[Len(cout)][1] = "Running"
        /\ Terminated =>
              /\ exit_code = 1
              /\ cerr[Len(cerr)] = Line("Exception", << calls[thrown] >>)

----------------------------------------------------------------------------
(* C8 *)

\* the stress loop went on after its n-th inference
ContinuedAfter(n) ==
    \/ n < iterations
    \/ n = iterations /\ (AtLoopHead \/ pc = "catch" \/ (Terminated /\ thrown # 0))

\* the iteration counts that have a progress line, in the order printed
ProgressPrinted == SelectSeq(cout, ProgressLine)

\* C8, as stated: every completed 10k-th inference has its progress line
C8_ProgressEveryTenth ==
    \A n \in 1 .. iterations :
        (n % ProgressEvery = 0 /\ pc # "stress_check") =>
            \E j \in 1 .. Len(cout) : cout[j] = Line("Progress", << n >>)

\* C8, witness: the loop ended on its 20th inference, with a line for 10 and
\* none for 20
C8_Witness ==
    /\ ExitedNormally
    /\ iterations = 2 * ProgressEvery
    /\ ProgressPrinted = << Line("Progress", << ProgressEvery >>) >>

\* C8 amended: the progress lines are, in order and once each, those of the
\* multiples of 10 after which the loop went on; the inference that ends the
\* loop gets none.  A loop that ends without an exception is followed by exactly
\* one final line, the last, which reports the total; otherwise there is none.
C8_ProgressWhileContinuing ==
    /\ pc # "stress_check" =>
          LET due == { n \in 1 .. iterations :
                         n % ProgressEvery = 0 /\ ContinuedAfter(n) }
          IN  ProgressPrinted =
                  [ j \in 1 .. Cardinality(due) |->
                      Line("Progress", << Nth(due, j) >>) ]
    /\ ExitedNormally =>
          /\ Len(SelectSeq(cout, CompleteLine)) = 1
          /\ cout[Len(cout)] = Line("StressComplete", << iterations >>)
    /\ ~ExitedNormally => ~HasLine(cout, "StressComplete")

----------------------------------------------------------------------------
(* C9 *)

\* all three fills are done
Filled == pc \in { "infer", "get_output_tensor", "verify", "stress_start",
                   "stress_infer", "stress_check" }
             \/ (HasLine(cout, "Running") /\ pc \in { "catch", "exited" })

Inputs == << input0, input1, input2 >>

\* one sequence is the beginning of the other
Prefix(a, b) == Len(a) <= Len(b) /\ SubSeq(b, 1, Len(a)) = a

\* C9, witness: three filled inputs of equal size, one of another rank
C9_Witness ==
    /\ pc = "infer"
    /\ \A k \in 1 .. 3 : Len(Inputs[k].data) = Len(input0.data)
    /\ Len(input0.data) > 1
    /\ Len(input0.shape) # Len(input1.shape)

\* C9: after the three fills any two inputs hold the same sequence as far as
\* the shorter one reaches, so inputs of equal size are equal element by
\* element, whatever their rank; and each holds the sequence a generator
\* seeded with 42 yields.
C9_FillDependsOnSizeOnly ==
    Filled =>
        /\ \A k \in 1 .. 3 : \A l \in 1 .. 3 :
              Len(Inputs[k].data) <= Len(Inputs[l].data) =>
                  Prefix(Inputs[k].data, Inputs[l].data)
        /\ \A k \in 1 .. 3 : \A i \in 1 .. Len(Inputs[k].data) :
              Inputs[k].data[i] =
                  IF i = 1 THEN gen_draw(Seed)
                  ELSE gen_draw(Inputs[k].data[i - 1])

====
